---- MODULE Spec2Model ----
(***************************************************************************)
(* Credit Risk Assessment API: the inference service of app.py and its two *)
(* startup paths (app.py run as the main program, start.py's main).        *)
(*                                                                         *)
(* Numbers.  Feature values are held in hundredths (0.6 is 60, 20 is       *)
(* 2000), probabilities in ten-thousandths (0.5 is 5000), so every         *)
(* comparison of the code is an integer comparison here.                   *)
(* Texts.  A formatted text (an f-string, a join) is the sequence of its   *)
(* pieces, so "contains" and "starts with" are statements about pieces.    *)
(***************************************************************************)
EXTENDS Integers, Sequences, FiniteSets, TLC

VARIABLES
    entry,          \* the program that was started: "app.py" or "start.py"
    env,            \* the host: interpreter, installed packages, files in the cwd
    disk,           \* the model directory beside app.py
    phase,          \* "boot", "serving" (app.run is accepting requests), "halted"
    ret,            \* what load_models returned: "not_called", "True", "False"
    model,          \* app.py global `model`
    preprocessor,   \* app.py global `preprocessor`
    req,            \* the requests in flight, one per worker thread of the server
    health          \* the last answer of GET /health

vars == <<entry, env, disk, phase, ret, model, preprocessor, req, health>>

\* Python's None, and the fitted preprocessor joblib.load returns.
None == [type |-> "NoneType"]

FittedPreprocessor == [type |-> "preprocessor"]

\* Number of requests the server handles at the same time.
NReq == 2

Slots == 1..NReq

-----------------------------------------------------------------------------
(* The serialized classifier, as joblib.load returns it, and load_models.   *)

\* What the deserialized classifier object offers (probed with hasattr).
ClassifierFields ==
    [ use_label_encoder : {"absent", "persisted"},
      gpu_id            : {"absent", "persisted"},
      device            : {"absent", "persisted"},
      attrs_writable    : BOOLEAN,
      set_params        : {"absent", "ok", "raises"},
      get_booster       : {"absent", "none", "engine", "raises"},
      booster_set_param : {"ok", "raises"} ]

\* The classifiers the model directory may hold: one serialized by an older
\* XGBoost (no use_label_encoder, gpu_id, device) that accepts set_params,
\* with every get_booster behaviour.
Classifiers ==
    { c \in ClassifierFields :
        /\ c.use_label_encoder = "absent"
        /\ c.gpu_id = "absent"
        /\ c.device = "absent"
        /\ c.attrs_writable
        /\ c.set_params = "ok"
        /\ c.booster_set_param = "ok" }

\* Lines 45-50: use_label_encoder is set to False when missing; a failing
\* setattr is caught.
PatchLabelEncoder(c) ==
    IF c.use_label_encoder = "absent" /\ c.attrs_writable
    THEN "False" ELSE c.use_label_encoder

\* Lines 52-74: the CPU settings, all inside one try. The first statement that
\* raises ends the block: "set_params" (line 54), "setattr" (lines 62, 64), or
\* none ("done"). The Booster patch (lines 66-71) has its own try.
CpuPatchEnd(c) ==
    IF c.set_params = "raises" THEN "set_params"
    ELSE LET device == IF c.set_params = "ok" THEN "cpu" ELSE c.device
         IN IF (c.gpu_id = "absent" \/ device = "absent") /\ ~c.attrs_writable
            THEN "setattr" ELSE "done"

\* The loaded, patched classifier: what predict later works with.
PatchedModel(c) ==
    LET end == CpuPatchEnd(c)
        set == c.set_params = "ok"
    IN  [ type              |-> "classifier",
          get_booster       |-> c.get_booster,
          use_label_encoder |-> PatchLabelEncoder(c),
          wrapper_params    |-> IF set THEN "cpu" ELSE "persisted",
          gpu_id            |-> IF c.gpu_id = "absent" /\ end = "done"
                                THEN "-1" ELSE c.gpu_id,
          device            |-> IF set THEN "cpu"
                                ELSE IF c.device = "absent" /\ end = "done"
                                     /\ c.attrs_writable THEN "cpu"
                                ELSE c.device,
          engine_params     |-> IF c.get_booster # "engine" THEN "none"
                                ELSE IF end = "done" /\ c.booster_set_param = "ok"
                                THEN "cpu" ELSE "persisted" ]

\* load_models: the return value and the two globals it leaves behind.
load_models(d) ==
    IF d.preprocessor # "ok"
    THEN [ret |-> "False", preprocessor |-> None, model |-> None]
    ELSE IF d.model # "ok"
    THEN [ret |-> "False", preprocessor |-> FittedPreprocessor, model |-> None]
    ELSE [ret |-> "True", preprocessor |-> FittedPreprocessor,
          model |-> PatchedModel(d.classifier)]

-----------------------------------------------------------------------------
(* Startup paths.                                                           *)

RequiredFiles == {"preprocessor.joblib", "final_xgb_model.joblib"}

\* start.py check_model_files: both files must be in the current directory.
check_model_files(e) == RequiredFiles \subseteq e.cwd_files

AnyClassifier == CHOOSE c \in Classifiers : TRUE

IdleSlot ==
    [ pc |-> "idle", body |-> [kind |-> "none"], stages |-> <<>>,
      path |-> "none", output |-> [kind |-> "none"],
      prediction |-> -1, probability |-> -1,
      resp |-> [status |-> 0] ]

NoHealth == [status |-> 0]

Init ==
    /\ entry \in {"app.py", "start.py"}
    /\ env \in [ python_ok : BOOLEAN,
                 deps      : {"ok", "checked_missing", "unchecked_missing"},
                 cwd_files : SUBSET RequiredFiles ]
    /\ disk \in [ preprocessor : {"missing", "corrupt", "ok"},
                  model        : {"missing", "corrupt", "ok"},
                  classifier   : Classifiers ]
    \* What a path never reads is held at one value.
    /\ entry = "app.py" => env.python_ok /\ env.cwd_files = {}
    /\ entry = "start.py" =>
          /\ disk.preprocessor = "ok" /\ disk.model = "ok"
          /\ disk.classifier = AnyClassifier
    /\ disk.model # "ok" => disk.classifier = AnyClassifier
    /\ phase = "boot"
    /\ ret = "not_called"
    /\ model = None
    /\ preprocessor = None
    /\ req = [r \in Slots |-> IdleSlot]
    /\ health = NoHealth

\* app.py run as the main program: the imports, then lines 215-223.
app_main ==
    /\ entry = "app.py"
    /\ phase = "boot"
    /\ IF env.deps # "ok"
       THEN /\ phase' = "halted"
            /\ UNCHANGED <<ret, model, preprocessor>>
       ELSE LET l == load_models(disk)
            IN  /\ ret' = l.ret
                /\ model' = l.model
                /\ preprocessor' = l.preprocessor
                /\ phase' = IF l.ret = "True" THEN "serving" ELSE "halted"
    /\ UNCHANGED <<entry, env, disk, req, health>>

\* start.py start_flask_app: imports app (its module body sets both globals
\* to None and does not run the __main__ block), then app.run.
start_flask_app(e) ==
    IF e.deps = "unchecked_missing" THEN "halted" ELSE "serving"

\* start.py main: the three checks, then start_flask_app.
start_main ==
    /\ entry = "start.py"
    /\ phase = "boot"
    /\ phase' = IF ~env.python_ok \/ env.deps = "checked_missing"
                   \/ ~check_model_files(env)
                THEN "halted"
                ELSE start_flask_app(env)
    /\ UNCHANGED <<entry, env, disk, ret, model, preprocessor, req, health>>

-----------------------------------------------------------------------------
(* Request bodies.                                                          *)

\* A JSON value of a numeric feature: a number, null, a string, NaN, or no
\* such key in the record.
Num(v) == [t |-> "num", v |-> v]
Str(s) == [t |-> "str", s |-> s]
Absent == [t |-> "absent"]
Null == [t |-> "null"]
NaN == [t |-> "nan"]

LoanPercentIncomeValues ==
    {Num(10), Num(20), Num(30), Num(60), Num(75),
     Str("0.75"), Str("abc"), Absent, Null, NaN}

LoanIntRateValues ==
    {Num(500), Num(800), Num(1500), Num(2000), Num(2500),
     Str("25"), Str("abc"), Absent, Null, NaN}

CredHistLengthValues ==
    {Num(100), Num(200), Num(500), Num(800), Num(1000),
     Str("1"), Str("abc"), Absent, Null, NaN}

DefaultOnFileValues == {Str("Y"), Str("N"), Absent}

Record(lpi, rate, hist, dflt) ==
    [ kind |-> "record",
      loan_percent_income |-> lpi,
      loan_int_rate |-> rate,
      cb_person_cred_hist_length |-> hist,
      cb_person_default_on_file |-> dflt ]

\* A body get_json cannot parse, and a body that is falsy ({}, null).
Malformed == [kind |-> "malformed"]
Empty == [kind |-> "empty"]

AllBodies ==
    {Malformed, Empty} \cup
    { Record(a, b, c, d) : a \in LoanPercentIncomeValues, b \in LoanIntRateValues,
                           c \in CredHistLengthValues, d \in DefaultOnFileValues }

\* The bodies of the concurrent clients: a full high-risk record, and one
\* whose loan_percent_income is null.
CoreBodies ==
    { Malformed, Empty,
      Record(Num(75), Num(2500), Num(100), Str("Y")),
      Record(Null, Num(1500), Num(500), Str("N")) }

-----------------------------------------------------------------------------
(* The rationale (lines 155-183).                                           *)

HighLoanToIncome == 60
LowLoanToIncome == 20
VeryHighRate == 2000
FavorableRate == 800
ShortHistory == 200
EstablishedHistory == 800

\* float() of a string, in hundredths; -1 when Python raises ValueError.
ParseFloat(s) ==
    CASE s = "0.75" -> 75
      [] s = "25" -> 2500
      [] s = "1" -> 100
      [] OTHER -> -1

\* float(df.get(key, [None])[0]): an absent key and a null both give None,
\* and float(None) raises TypeError.
Float(x) ==
    CASE x.t = "num" -> [ok |-> TRUE, nan |-> FALSE, v |-> x.v]
      [] x.t = "nan" -> [ok |-> TRUE, nan |-> TRUE, v |-> 0]
      [] x.t = "str" -> [ok |-> ParseFloat(x.s) >= 0, nan |-> FALSE, v |-> ParseFloat(x.s)]
      [] OTHER -> [ok |-> FALSE, nan |-> FALSE, v |-> 0]

\* Every comparison with NaN is false.
Gt(f, c) == ~f.nan /\ f.v > c
Lt(f, c) == ~f.nan /\ f.v < c

LoanRuleInclusive(f) ==
    IF f.v >= HighLoanToIncome THEN <<"High loan-to-income ratio">>
    ELSE IF f.v <= LowLoanToIncome THEN <<"Low loan-to-income ratio">>
    ELSE <<>>

LoanRule(f) ==
    IF Gt(f, HighLoanToIncome) THEN <<"High loan-to-income ratio">>
    ELSE IF Lt(f, LowLoanToIncome) THEN <<"Low loan-to-income ratio">>
    ELSE <<>>

RateRule(f) ==
    IF Gt(f, VeryHighRate) THEN <<"Very high interest rate">>
    ELSE IF Lt(f, FavorableRate) THEN <<"Favorable interest rate">>
    ELSE <<>>

HistoryRule(f) ==
    IF Lt(f, ShortHistory) THEN <<"Short credit history">>
    ELSE IF Gt(f, EstablishedHistory) THEN <<"Established credit history">>
    ELSE <<>>

DefaultRule(x) ==
    IF x = Str("Y") THEN <<"Previous default on file">> ELSE <<>>

RationaleUnavailableAppended(parts) == Append(parts, "Rationale unavailable")

\* What the except clause of line 181 does with the tags gathered so far.
RationaleUnavailable(parts) == <<"Rationale unavailable">>

\* rationale_parts after lines 156-182. The three float() calls come in
\* order; the first that raises ends the try block.
rationale_parts(d) ==
    LET f1 == Float(d.loan_percent_income)
        f2 == Float(d.loan_int_rate)
        f3 == Float(d.cb_person_cred_hist_length)
    IN  IF ~f1.ok THEN RationaleUnavailable(<<>>)
        ELSE IF ~f2.ok THEN RationaleUnavailable(LoanRule(f1))
        ELSE IF ~f3.ok THEN RationaleUnavailable(LoanRule(f1) \o RateRule(f2))
        ELSE LET parts == LoanRule(f1) \o RateRule(f2) \o HistoryRule(f3)
                          \o DefaultRule(d.cb_person_default_on_file)
             IN  IF parts = <<>>
                 THEN <<"Typical risk profile for provided features">>
                 ELSE parts

\* ", ".join(parts): the tags with a separator between neighbours.
RECURSIVE Join(_)
Join(parts) ==
    IF Len(parts) <= 1 THEN parts
    ELSE <<Head(parts), ", ">> \o Join(Tail(parts))

-----------------------------------------------------------------------------
(* The responses of predict.                                                *)

NotLoadedUnchecked(m, p) == FALSE

\* Line 99.
NotLoaded(m, p) == m = None \/ p = None

\* Lines 100-102.
NotReadyFault ==
    [ status |-> 500,
      error |-> <<"Models not loaded. Please ensure model files are available.">> ]

\* Line 107.
NoDataFault == [status |-> 400, error |-> <<"No data provided">>]

PreprocessingFaultAsServerFault(e) ==
    [status |-> 500, error |-> <<"Data preprocessing failed: ", e>>]

\* Lines 121-123.
PreprocessingFault(e) ==
    [status |-> 400, error |-> <<"Data preprocessing failed: ", e>>]

\* Lines 145-147.
PredictionFault(e) ==
    [status |-> 500, error |-> <<"Prediction failed: ", e>>]

\* Lines 198-200.
UnexpectedFault(e) ==
    [status |-> 500, error |-> <<"An unexpected error occurred: ", e>>]

\* Line 137: the decision threshold, 0.5.
Threshold == 5000

LabelStrict(probability) == IF probability > Threshold THEN 1 ELSE 0

Label(probability) == IF probability >= Threshold THEN 1 ELSE 0

\* f"{probability:.2%}": percent with two decimals.
Percent(probability) ==
    LET cents == probability % 100
    IN  ToString(probability \div 100) \o "."
        \o (IF cents < 10 THEN "0" ELSE "") \o ToString(cents) \o "%"

\* Lines 150-153.
Message(prediction, probability) ==
    IF prediction = 0
    THEN << "Low Risk", ": This loan application has a ", Percent(probability),
            " probability of default. Recommended for approval." >>
    ELSE << "High Risk", ": This loan application has a ", Percent(probability),
            " probability of default. Not recommended for approval." >>

\* Line 190.
RiskLevel(prediction) == IF prediction = 1 THEN "High Risk" ELSE "Low Risk"

\* Lines 186-194.
SuccessResponse(prediction, probability, d) ==
    [ status |-> 200,
      prediction |-> prediction,
      probability |-> probability,
      message |-> Message(prediction, probability),
      risk_level |-> RiskLevel(prediction),
      rationale |-> Join(rationale_parts(d)) ]

-----------------------------------------------------------------------------
(* Scoring (lines 126-147).                                                 *)

\* What preprocessor.transform does with a single-row frame: a matrix, or an
\* exception with its text.
TransformOutcomes == {"ok", "columns are missing: {'loan_int_rate'}"}

\* What booster.predict(DMatrix(matrix)) gives: an exception, or an array.
EngineOutputs ==
    { [raises |-> TRUE, values |-> <<>>],
      [raises |-> FALSE, values |-> <<>>],
      [raises |-> FALSE, values |-> <<4999>>],
      [raises |-> FALSE, values |-> <<5000>>],
      [raises |-> FALSE, values |-> <<7512, 2488>>] }

\* What the wrapper's predict and predict_proba give: predict[0] is a class
\* label, predict_proba[0] the row (P(class 0), P(class 1)).
WrapperLabels == {0, 1, 2}

WrapperOutputs ==
    { [predict |-> "ok", label |-> l, predict_proba |-> "ok", row |-> <<10000 - p, p>>] :
        l \in WrapperLabels, p \in {4999, 5000, 7512} }
    \cup { [predict |-> "raises", label |-> 0, predict_proba |-> "ok", row |-> <<0, 10000>>],
           [predict |-> "ok", label |-> 1, predict_proba |-> "raises", row |-> <<0, 10000>>] }

\* The outcome of the try block of lines 126-147; `output` is what the engine
\* or the wrapper returned.
Scored(path, output, prediction, probability) ==
    [ok |-> TRUE, path |-> path, output |-> output, prediction |-> prediction,
     probability |-> probability, error |-> ""]

ScoreFailed(path, e) ==
    [ok |-> FALSE, path |-> path, output |-> [kind |-> "none"], prediction |-> -1,
     probability |-> -1, error |-> e]

\* Line 128: model.get_booster() if hasattr(model, 'get_booster') else None,
\* and the branch of line 129. "raises": get_booster itself raised.
ScoringPath(m) ==
    IF m = None \/ m.get_booster \in {"absent", "none"} THEN "fallback"
    ELSE IF m.get_booster = "engine" THEN "primary"
    ELSE "raises"

\* Lines 130-137.
PrimaryScore(out) ==
    IF out.raises THEN ScoreFailed("primary", "feature shape mismatch")
    ELSE IF out.values = <<>>
    THEN ScoreFailed("primary", "index 0 is out of bounds")
    ELSE Scored("primary", out, Label(out.values[1]), out.values[1])

\* Lines 140-141.
FallbackScore(m, w) ==
    IF m = None
    THEN ScoreFailed("fallback", "'NoneType' object has no attribute 'predict'")
    ELSE IF w.predict = "raises"
    THEN ScoreFailed("fallback", "predict failed")
    ELSE IF w.predict_proba = "raises"
    THEN ScoreFailed("fallback", "predict_proba failed")
    ELSE Scored("fallback", w, w.label, w.row[2])

\* The try block of lines 126-147.
score(m, out, w) ==
    CASE ScoringPath(m) = "primary" -> PrimaryScore(out)
      [] ScoringPath(m) = "fallback" -> FallbackScore(m, w)
      [] OTHER -> ScoreFailed("none", "need to call fit or load_model beforehand")

-----------------------------------------------------------------------------
(* The request handlers.                                                    *)

DropArtifactsOnFault ==
    /\ model' = IF \E r \in Slots : req'[r].resp.status = 500 THEN None ELSE model
    /\ UNCHANGED preprocessor

\* predict and health_check declare no global: they read model and
\* preprocessor and assign neither.
KeepArtifacts == UNCHANGED <<model, preprocessor>>

Finish(s, response) == [s EXCEPT !.pc = "done", !.resp = response]

\* Lines 97-113: the readiness check, get_json, the no-data check, the frame.
Receive(r, Bodies) ==
    /\ phase = "serving"
    /\ req[r].pc = "idle"
    /\ \E b \in Bodies :
         LET s == [IdleSlot EXCEPT !.body = b]
         IN  req' = [req EXCEPT ![r] =
                 IF NotLoaded(model, preprocessor) THEN Finish(s, NotReadyFault)
                 ELSE IF b.kind = "malformed"
                 THEN Finish(s, UnexpectedFault("400 Bad Request"))
                 ELSE IF b.kind = "empty" THEN Finish(s, NoDataFault)
                 ELSE [s EXCEPT !.pc = "received"]]
    /\ KeepArtifacts
    /\ UNCHANGED <<entry, env, disk, phase, ret, health>>

\* Lines 115-123.
Transform(r) ==
    /\ phase = "serving"
    /\ req[r].pc = "received"
    /\ \E t \in TransformOutcomes :
         LET s == [req[r] EXCEPT !.stages = Append(@, "transform")]
         IN  req' = [req EXCEPT ![r] =
                 IF preprocessor = None
                 THEN Finish(s, PreprocessingFault(
                          "'NoneType' object has no attribute 'transform'"))
                 ELSE IF t # "ok" THEN Finish(s, PreprocessingFault(t))
                 ELSE [s EXCEPT !.pc = "transformed"]]
    /\ KeepArtifacts
    /\ UNCHANGED <<entry, env, disk, phase, ret, health>>

\* Lines 125-147.
Score(r) ==
    /\ phase = "serving"
    /\ req[r].pc = "transformed"
    /\ \E out \in EngineOutputs, w \in WrapperOutputs :
         LET s == [req[r] EXCEPT !.stages = Append(@, "score")]
             res == score(model, out, w)
         IN  req' = [req EXCEPT ![r] =
                 IF ~res.ok
                 THEN Finish([s EXCEPT !.path = res.path], PredictionFault(res.error))
                 ELSE [s EXCEPT !.pc = "scored", !.path = res.path,
                                !.output = res.output,
                                !.prediction = res.prediction,
                                !.probability = res.probability]]
    /\ KeepArtifacts
    /\ UNCHANGED <<entry, env, disk, phase, ret, health>>

\* Lines 149-194.
Respond(r) ==
    /\ phase = "serving"
    /\ req[r].pc = "scored"
    /\ LET s == [req[r] EXCEPT !.stages = Append(@, "rationale")]
       IN  req' = [req EXCEPT ![r] =
               Finish(s, SuccessResponse(s.prediction, s.probability, s.body))]
    /\ KeepArtifacts
    /\ UNCHANGED <<entry, env, disk, phase, ret, health>>

\* The response has gone out and the worker thread takes the next request.
Return(r) ==
    /\ phase = "serving"
    /\ req[r].pc = "done"
    /\ req' = [req EXCEPT ![r] = IdleSlot]
    /\ KeepArtifacts
    /\ UNCHANGED <<entry, env, disk, phase, ret, health>>

\* Lines 85-92.
health_check ==
    /\ phase = "serving"
    /\ health' = [ status |-> 200, state |-> "healthy",
                   model_loaded |-> model # None,
                   preprocessor_loaded |-> preprocessor # None ]
    /\ UNCHANGED <<entry, env, disk, phase, ret, req>>
    /\ KeepArtifacts

\* The server with NReq concurrent clients.
Next ==
    \/ app_main
    \/ start_main
    \/ health_check
    \/ \E r \in Slots : Receive(r, CoreBodies)
    \/ \E r \in Slots : Transform(r)
    \/ \E r \in Slots : Score(r)
    \/ \E r \in Slots : Respond(r)
    \/ \E r \in Slots : Return(r)

Spec == Init /\ [][Next]_vars

\* The server with one client at a time and every body of AllBodies.
NextInfer ==
    \/ app_main
    \/ start_main
    \/ health_check
    \/ Receive(1, AllBodies)
    \/ Transform(1)
    \/ Score(1)
    \/ Respond(1)
    \/ Return(1)

SpecInfer == Init /\ [][NextInfer]_vars

-----------------------------------------------------------------------------
(* Properties.                                                              *)

Stages == <<"transform", "score", "rationale">>

ErrorOnly(resp) == DOMAIN resp = {"status", "error"}

Payload == {"prediction", "probability", "message", "risk_level", "rationale"}

IsNotReady(resp) ==
    /\ ErrorOnly(resp)
    /\ resp.error[1] = "Models not loaded. Please ensure model files are available."

IsPreprocessingFault(resp) ==
    ErrorOnly(resp) /\ resp.error[1] = "Data preprocessing failed: "

IsPredictionFault(resp) ==
    ErrorOnly(resp) /\ resp.error[1] = "Prediction failed: "

IsSuccess(resp) == resp.status = 200

\* C1: a request with a non-empty record and loaded artifacts runs transform,
\* score, rationale in that order; a request that ends at the transform stage
\* answers 400 with the transform's failure text and has run neither scoring
\* nor the rationale; one that ends at the scoring stage answers 500 with no
\* prediction, probability, message or rationale; only a request that ran all
\* three stages answers with the payload.
C1_StagesShortCircuit ==
    \A r \in Slots :
        LET s == req[r]
        IN  /\ s.stages = SubSeq(Stages, 1, Len(s.stages))
            /\ s.pc = "received" => s.stages = <<>>
            /\ s.pc = "transformed" => s.stages = <<"transform">>
            /\ s.pc = "scored" => s.stages = <<"transform", "score">>
            /\ (s.pc = "done" /\ s.stages = <<"transform">>) =>
                  /\ s.resp.status = 400
                  /\ IsPreprocessingFault(s.resp)
                  /\ \E i \in 1..Len(s.resp.error) :
                        s.resp.error[i] \in TransformOutcomes \ {"ok"}
            /\ (s.pc = "done" /\ s.stages = <<"transform", "score">>) =>
                  /\ s.resp.status = 500
                  /\ IsPredictionFault(s.resp)
                  /\ DOMAIN s.resp \cap Payload = {}
            /\ (s.pc = "done" /\ s.stages = Stages) =>
                  /\ IsSuccess(s.resp)
                  /\ Payload \subseteq DOMAIN s.resp
            /\ (s.pc = "done" /\ IsPreprocessingFault(s.resp)) =>
                  s.stages = <<"transform">>

\* A transform failure and a scoring failure, side by side.
C1_Witness ==
    \E r1, r2 \in Slots :
        /\ req[r1].pc = "done" /\ req[r1].stages = <<"transform">>
        /\ req[r1].body.kind = "record"
        /\ req[r2].pc = "done" /\ req[r2].stages = <<"transform", "score">>
        /\ req[r2].body.kind = "record"
        /\ model # None /\ preprocessor # None

\* C2: while the classifier or the preprocessor is None, every predict request
\* ends with the not-ready error, having run no stage and produced no payload,
\* and the step leaves model and preprocessor as they were.
C2_NotReadyNoSideEffects ==
    /\ [](phase = "serving" /\ (model = None \/ preprocessor = None) =>
            \A r \in Slots :
                /\ req[r].pc \in {"idle", "done"}
                /\ req[r].pc = "done" =>
                      /\ IsNotReady(req[r].resp)
                      /\ req[r].stages = <<>>
                      /\ req[r].path = "none"
                      /\ DOMAIN req[r].resp \cap Payload = {})
    /\ [][(model = None \/ preprocessor = None) /\ req' # req =>
            model' = model /\ preprocessor' = preprocessor]_vars

\* A record was sent to a server whose artifacts are not loaded.
C2_Witness ==
    \E r \in Slots :
        /\ req[r].pc = "done"
        /\ req[r].body.kind = "record"
        /\ IsNotReady(req[r].resp)
        /\ model = None

\* C3: the three fault kinds carry three different statuses: not-ready a
\* server-unavailable status (503), preprocessing a bad-request status (400),
\* prediction an internal-error status (500).
C3_FaultStatusesDistinct ==
    \A r \in Slots :
        req[r].pc = "done" =>
            /\ IsNotReady(req[r].resp) => req[r].resp.status = 503
            /\ IsPreprocessingFault(req[r].resp) => req[r].resp.status = 400
            /\ IsPredictionFault(req[r].resp) => req[r].resp.status = 500

\* C4: every success response has prediction 0 or 1, and prediction = 1
\* exactly when the message contains "High Risk" and exactly when risk_level
\* is "High Risk"; otherwise the message starts with "Low Risk" and risk_level
\* is "Low Risk".
C4_LabelMessageRiskLevelAgree ==
    \A r \in Slots :
        (req[r].pc = "done" /\ IsSuccess(req[r].resp)) =>
            LET resp == req[r].resp
                high == \E i \in 1..Len(resp.message) : resp.message[i] = "High Risk"
            IN  /\ resp.prediction \in {0, 1}
                /\ resp.prediction = 1 <=> high
                /\ resp.prediction = 1 <=> resp.risk_level = "High Risk"
                /\ resp.prediction # 1 =>
                      resp.message[1] = "Low Risk" /\ resp.risk_level = "Low Risk"

\* The tags of a joined rationale: the pieces between the separators.
TagsOf(rationale) ==
    [i \in 1..((Len(rationale) + 1) \div 2) |-> rationale[2 * i - 1]]

IsNumber(x) == x.t = "num"

\* The rule set as the specification words it, on the raw values.
ExpectedTags(d) ==
    LET lpi == d.loan_percent_income.v
        rate == d.loan_int_rate.v
        hist == d.cb_person_cred_hist_length.v
    IN  (IF lpi > 60 THEN <<"High loan-to-income ratio">>
         ELSE IF lpi < 20 THEN <<"Low loan-to-income ratio">> ELSE <<>>)
        \o (IF rate > 2000 THEN <<"Very high interest rate">>
            ELSE IF rate < 800 THEN <<"Favorable interest rate">> ELSE <<>>)
        \o (IF hist < 200 THEN <<"Short credit history">>
            ELSE IF hist > 800 THEN <<"Established credit history">> ELSE <<>>)
        \o (IF d.cb_person_default_on_file = Str("Y")
            THEN <<"Previous default on file">> ELSE <<>>)

Has(tags, t) == \E i \in 1..Len(tags) : tags[i] = t

\* C5: when the three numeric rationale fields are numbers, the rationale is
\* the list of fired rules in rule order, with strict comparisons; the two tags
\* of a pair never appear together; the list is the typical-profile tag exactly
\* when no rule fires; (0.75, 25, 1, 'Y') gives the four high-risk tags and
\* (0.3, 15, 5, 'N') the typical-profile tag alone.
C5_RationaleRules ==
    \A r \in Slots :
        LET s == req[r]
            d == s.body
        IN  ( /\ s.pc = "done" /\ IsSuccess(s.resp)
              /\ IsNumber(d.loan_percent_income)
              /\ IsNumber(d.loan_int_rate)
              /\ IsNumber(d.cb_person_cred_hist_length) ) =>
            LET tags == TagsOf(s.resp.rationale)
                fired == ExpectedTags(d)
            IN  /\ tags = IF fired = <<>>
                          THEN <<"Typical risk profile for provided features">>
                          ELSE fired
                /\ Has(tags, "Typical risk profile for provided features")
                      <=> fired = <<>>
                /\ ~(Has(tags, "High loan-to-income ratio")
                     /\ Has(tags, "Low loan-to-income ratio"))
                /\ ~(Has(tags, "Very high interest rate")
                     /\ Has(tags, "Favorable interest rate"))
                /\ ~(Has(tags, "Short credit history")
                     /\ Has(tags, "Established credit history"))
                /\ (d.loan_percent_income.v = 60 \/ d.loan_percent_income.v = 20)
                      => ~Has(tags, "High loan-to-income ratio")
                         /\ ~Has(tags, "Low loan-to-income ratio")
                /\ (d.loan_int_rate.v = 2000 \/ d.loan_int_rate.v = 800)
                      => ~Has(tags, "Very high interest rate")
                         /\ ~Has(tags, "Favorable interest rate")
                /\ (d.cb_person_cred_hist_length.v = 200
                    \/ d.cb_person_cred_hist_length.v = 800)
                      => ~Has(tags, "Short credit history")
                         /\ ~Has(tags, "Established credit history")
                /\ d = Record(Num(75), Num(2500), Num(100), Str("Y")) =>
                      s.resp.rationale =
                          << "High loan-to-income ratio", ", ",
                             "Very high interest rate", ", ",
                             "Short credit history", ", ",
                             "Previous default on file" >>
                /\ d = Record(Num(30), Num(1500), Num(500), Str("N")) =>
                      s.resp.rationale =
                          <<"Typical risk profile for provided features">>

\* A record with every numeric field exactly at a threshold was answered.
C5_Witness ==
    /\ req[1].pc = "done"
    /\ IsSuccess(req[1].resp)
    /\ req[1].body = Record(Num(60), Num(2000), Num(200), Str("Y"))

Unconvertible(x) == x \in {Absent, Null, Str("abc")}

\* C6: when transform and scoring succeeded and one of the three numeric
\* rationale fields is absent, null or not a number, the rationale is the
\* single tag "Rationale unavailable" and the response is a success carrying
\* prediction, probability, message and risk_level.
C6_RationaleDegrades ==
    \A r \in Slots :
        LET s == req[r]
            d == s.body
        IN  ( /\ s.pc = "done" /\ s.stages = Stages
              /\ \/ Unconvertible(d.loan_percent_income)
                 \/ Unconvertible(d.loan_int_rate)
                 \/ Unconvertible(d.cb_person_cred_hist_length) ) =>
            /\ IsSuccess(s.resp)
            /\ s.resp.rationale = <<"Rationale unavailable">>
            /\ DOMAIN s.resp = Payload \cup {"status"}
            /\ s.resp.prediction = s.prediction
            /\ s.resp.probability = s.probability
            /\ s.resp.message[1] \in {"Low Risk", "High Risk"}
            /\ s.resp.risk_level \in {"Low Risk", "High Risk"}

\* The first rule fired, then the interest rate turned out to be null.
C6_Witness ==
    /\ req[1].pc = "done"
    /\ IsSuccess(req[1].resp)
    /\ req[1].body = Record(Num(75), Null, Num(100), Str("Y"))

\* C7: on both startup paths the server accepts requests only after
\* load_models has returned success with both artifacts loaded.
C7_ServesOnlyAfterLoad ==
    phase = "serving" =>
        /\ ret = "True"
        /\ model # None
        /\ preprocessor # None

\* C8: model and preprocessor are assigned by load_models alone: while the
\* server is serving they hold what load_models left (None when it was never
\* called), and no step of any request, whatever its outcome, changes them.
C8_ArtifactsReadOnly ==
    /\ [](phase = "serving" =>
            IF ret = "not_called"
            THEN model = None /\ preprocessor = None
            ELSE /\ model = load_models(disk).model
                 /\ preprocessor = load_models(disk).preprocessor)
    /\ [][phase = "serving" => model' = model /\ preprocessor' = preprocessor]_vars

\* A request failed with a server fault and another one was answered with a
\* prediction by the same loaded artifacts.
C8_Witness ==
    \E r1, r2 \in Slots :
        /\ req[r1].pc = "done" /\ req[r1].resp.status = 500
        /\ req[r2].pc = "done" /\ IsSuccess(req[r2].resp)
        /\ model # None /\ preprocessor # None

ThresholdLabel(probability) == IF probability >= 5000 THEN 1 ELSE 0

HasScore(s) == s.pc = "scored" \/ (s.pc = "done" /\ IsSuccess(s.resp))

\* C9 as stated: the label of the fallback path equals the label the primary
\* rule (1 iff probability >= 0.5) gives for the reported probability, unless
\* the probability is exactly 0.5.
C9_PathsAgreeOffBoundary ==
    \A r \in Slots :
        (HasScore(req[r]) /\ req[r].path = "fallback" /\ req[r].probability # 5000)
            => req[r].prediction = ThresholdLabel(req[r].probability)

\* C9 amended: on the primary path the probability is the first element of the
\* engine's output and the label is 1 exactly when it is >= 0.5 (1 at 0.5); on
\* the fallback path the label is the wrapper's predict output as given and the
\* probability is predict_proba[0][1], with no threshold applied by predict.
C9_LabelPerPath ==
    \A r \in Slots :
        LET s == req[r]
        IN  HasScore(s) =>
            /\ s.path \in {"primary", "fallback"}
            /\ s.path = "primary" =>
                  /\ s.probability = s.output.values[1]
                  /\ s.prediction = 1 <=> s.probability >= 5000
                  /\ s.prediction \in {0, 1}
            /\ s.path = "fallback" =>
                  /\ s.prediction = s.output.label
                  /\ s.probability = s.output.row[2]

\* The wrapper answered label 0 next to a probability above 0.5.
C9_Witness ==
    \E r \in Slots :
        /\ req[r].pc = "done" /\ IsSuccess(req[r].resp)
        /\ req[r].path = "fallback"
        /\ req[r].resp.prediction = 0
        /\ req[r].resp.probability > 5000

\* C10: the path is chosen by whether an engine was obtained: the primary path
\* exactly when get_booster gave an engine, and the fallback path whenever it
\* gave none (no get_booster, get_booster gave None, get_booster failed).
C10_FallbackWhenNoEngine ==
    \A r \in Slots :
        Len(req[r].stages) >= 2 =>
            /\ req[r].path = "primary" <=> model.get_booster = "engine"
            /\ model.get_booster # "engine" => req[r].path = "fallback"

-----------------------------------------------------------------------------
(* Loading a classifier of any provenance.                                  *)

\* As Init, with every classifier object of ClassifierFields in the model file.
InitLoad ==
    /\ entry \in {"app.py", "start.py"}
    /\ env \in [ python_ok : BOOLEAN,
                 deps      : {"ok", "checked_missing", "unchecked_missing"},
                 cwd_files : SUBSET RequiredFiles ]
    /\ disk \in [ preprocessor : {"missing", "corrupt", "ok"},
                  model        : {"missing", "corrupt", "ok"},
                  classifier   : ClassifierFields ]
    /\ entry = "app.py" => env.python_ok /\ env.cwd_files = {}
    /\ entry = "start.py" =>
          /\ disk.preprocessor = "ok" /\ disk.model = "ok"
          /\ disk.classifier = AnyClassifier
    /\ disk.model # "ok" => disk.classifier = AnyClassifier
    /\ phase = "boot"
    /\ ret = "not_called"
    /\ model = None
    /\ preprocessor = None
    /\ req = [r \in Slots |-> IdleSlot]
    /\ health = NoHealth

\* The server with one client at a time and the bodies of CoreBodies.
NextLoad ==
    \/ app_main
    \/ start_main
    \/ health_check
    \/ Receive(1, CoreBodies)
    \/ Transform(1)
    \/ Score(1)
    \/ Respond(1)
    \/ Return(1)

SpecLoad == InitLoad /\ [][NextLoad]_vars

\* load_models was called on a model directory whose two files exist and
\* deserialize.
LoadedFromGoodFiles ==
    /\ entry = "app.py"
    /\ ret # "not_called"
    /\ disk.preprocessor = "ok"
    /\ disk.model = "ok"

\* C11: when both files exist and deserialize, load_models returns success
\* whatever patch step raises, and an embedded engine that accepts set_param
\* has been given the CPU-only parameters whether or not the patch of the
\* wrapper (set_params, gpu_id, device) succeeded.
C11_PatchesIndependent ==
    LoadedFromGoodFiles =>
        /\ ret = "True"
        /\ phase = "serving"
        /\ model # None
        /\ (disk.classifier.get_booster = "engine"
            /\ disk.classifier.booster_set_param = "ok")
              => model.engine_params = "cpu"

====
